---- MODULE Spec2Model ----
(***************************************************************************)
(* PongAI: the policy network (src/pong/network.rs), the REINFORCE trainer *)
(* (src/pong/reinforce.rs) and the scoring systems of the game             *)
(* (src/pong.rs), as Bevy systems that each run once per frame.            *)
(*                                                                         *)
(* Numbers.  An f32 is modelled as a fixed-point integer: the value v is   *)
(* the integer v * SCALE.  Addition is integer addition; a product is      *)
(* truncated toward zero to the grid (sign-symmetric, like IEEE rounding). *)
(* exp() is a table with linear interpolation, and it overflows to +inf    *)
(* above ln(f32::MAX) as the f32 exp does.                                 *)
(***************************************************************************)
EXTENDS Integers, Sequences, FiniteSets, TLC

\* ------------------------------------------------------------------ bounds
\* Frames explored in a game that starts at 0-0.
MaxFrames == 25
\* Frames explored in a scenario that starts from a drawn score.
MaxSteps == 3
\* Draws that land at or above the network output (Down), per trajectory.
MaxDown == 1
\* Runs of move_ball the ball needs at least from the centre to a wall
\* ((WIDTH / 2 - BALL_SIZE / 2) / BALL_SPEED = 134 in the game).
MinFlight == 2

\* ------------------------------------------------------------- fixed point
SCALE == 10 ^ 4

Idx == 0 .. 4

Abs(x) == IF x < 0 THEN -x ELSE x

\* floor(a * b / SCALE) for a, b >= 0 without leaving 32 bits, from the
\* whole parts ah, bh and the fractions al, bl of a and b
MulSplit(ah, al, bh, bl) ==
  ah * bh * SCALE + ah * bl + al * bh + (al * bl) \div SCALE

MulNat(a, b) == MulSplit(a \div SCALE, a % SCALE, b \div SCALE, b % SCALE)

\* f32 product
Mul(a, b) ==
  IF (a < 0) = (b < 0) THEN MulNat(Abs(a), Abs(b)) ELSE -MulNat(Abs(a), Abs(b))

\* the arrays [f32; 5] and [f32; 11], element by element
Array5(F(_)) == (0 :> F(0)) @@ (1 :> F(1)) @@ (2 :> F(2)) @@ (3 :> F(3)) @@ (4 :> F(4))

Array11(F(_)) ==
  (0 :> F(0)) @@ (1 :> F(1)) @@ (2 :> F(2)) @@ (3 :> F(3)) @@ (4 :> F(4)) @@
  (5 :> F(5)) @@ (6 :> F(6)) @@ (7 :> F(7)) @@ (8 :> F(8)) @@ (9 :> F(9)) @@
  (10 :> F(10))

\* sum over i of x[i] * w[i], accumulated in index order
Dot5(x, w) ==
  Mul(x[0], w[0]) + Mul(x[1], w[1]) + Mul(x[2], w[2]) + Mul(x[3], w[3])
  + Mul(x[4], w[4])

\* column k of a [[f32; 5]; 5]: w[0][k] .. w[4][k]
Column(w, k) == Array5(LAMBDA i : w[i][k])

\* f32::powf(base, n) for a whole exponent n >= 0
RECURSIVE powf(_, _)
powf(base, n) == IF n = 0 THEN SCALE ELSE Mul(powf(base, n - 1), base)

\* e^(x/4) * SCALE for x = -48 .. 48
ExpTable ==
  << 0, 0, 0, 0, 0, 0, 0, 0, 0, 1, 1, 1, 1, 2, 2, 3, 3, 4, 6, 7, 9, 12, 15, 19,
     25, 32, 41, 52, 67, 87, 111, 143, 183, 235, 302, 388, 498, 639, 821, 1054,
     1353, 1738, 2231, 2865, 3679, 4724, 6065, 7788, 10000, 12840, 16487, 21170,
     27183, 34903, 44817, 57546, 73891, 94877, 121825, 156426, 200855, 257903,
     331155, 425211, 545982, 701054, 900171, 1155843, 1484132, 1905663, 2446919,
     3141907, 4034288, 5180128, 6651416, 8540588, 10966332, 14081048, 18080424,
     23215724, 29809580, 38276258, 49147688, 63106881, 81030839, 104045657,
     133597268, 171542288, 220264658, 282825419, 363155027, 466300285, 598741417,
     768799198, 987157710, 1267535590, 1627547914 >>

ExpStep == SCALE \div 4
ExpSpan == 12 * SCALE

\* ln(f32::MAX) = 88.7228...: above it f32::exp returns +inf
ExpMaxArg == 88 * SCALE + 7228

ExpOverflows(x) == x > ExpMaxArg

\* the table value between lo and hi, frac / ExpStep of the way
ExpBetween(lo, hi, frac) ==
  lo + ((hi - lo) \div ExpStep) * frac + (((hi - lo) % ExpStep) * frac) \div ExpStep

\* f32::exp on the grid (the finite part; above ExpSpan the value is so large
\* that 1/(1+e^x) is 0 on the grid, as it is for +inf)
exp(x) ==
  IF x < -ExpSpan THEN 0
  ELSE IF x >= ExpSpan THEN ExpTable[97]
  ELSE ExpBetween(ExpTable[(x + ExpSpan) \div ExpStep + 1],
                  ExpTable[(x + ExpSpan) \div ExpStep + 2],
                  (x + ExpSpan) % ExpStep)

\* network.rs activation: 1.0 / (1.0 + input.exp())
activation(input) == (SCALE * SCALE) \div (SCALE + exp(input))


\* ------------------------------------------------------------ policy model
\* network.rs Network and reinforce.rs PolicyGradient have the same shape
ZeroParams ==
  [ biases               |-> Array11(LAMBDA b : 0),
    first_layer_weights  |-> Array5(LAMBDA i : Array5(LAMBDA k : 0)),
    second_layer_weights |-> Array5(LAMBDA i : Array5(LAMBDA k : 0)),
    output_layer_weights |-> Array5(LAMBDA k : 0) ]

\* the pre-activations of the three layers: the weighted inputs plus the bias
PreActivations0(net, network_inputs) ==
  Array5(LAMBDA k :
    Dot5(network_inputs, Column(net.first_layer_weights, k)) + net.biases[k])

PreActivations1(net, a0) ==
  Array5(LAMBDA k :
    Dot5(a0, Column(net.second_layer_weights, k)) + net.biases[k + 5])

PreActivationOut(net, a1) ==
  Dot5(a1, net.output_layer_weights) + net.biases[10]

\* activation() of every node of a layer
Activated(z) == Array5(LAMBDA k : activation(z[k]))

\* feed_forward: the first hidden layer
first_layer_outputs(net, network_inputs) ==
  Activated(PreActivations0(net, network_inputs))

\* feed_forward: the second hidden layer
second_layer_outputs(net, network_inputs) ==
  Activated(PreActivations1(net, first_layer_outputs(net, network_inputs)))

\* feed_forward: the output node
network_output_value(net, network_inputs) ==
  activation(PreActivationOut(net, second_layer_outputs(net, network_inputs)))

\* ------------------------------------------------------------------ trainer
\* an exp() of a layer overflowed to +inf
LayerOverflows(z) == \E k \in Idx : ExpOverflows(z[k])

\* train_with_reinforce: activations[0], activations[1] and pi of one state,
\* layer by layer, and whether an exp() of the recomputation overflowed
ActivationsOut(a0, a1, z2, over) ==
  [ a0 |-> a0, a1 |-> a1, pi |-> activation(z2),
    nonfinite |-> over \/ ExpOverflows(z2) ]

ActivationsLayer1_FromLayer0(net, a0, z1, over) ==
  ActivationsOut(a0, Activated(z1), PreActivationOut(net, a0),
                 over \/ LayerOverflows(z1))

ActivationsLayer1(net, a0, z1, over) ==
  ActivationsOut(a0, Activated(z1), PreActivationOut(net, Activated(z1)),
                 over \/ LayerOverflows(z1))

ActivationsLayer0(net, z0) ==
  ActivationsLayer1(net, Activated(z0), PreActivations1(net, Activated(z0)),
                    LayerOverflows(z0))

activations(net, network_inputs) ==
  ActivationsLayer0(net, PreActivations0(net, network_inputs))

\* the inner loop over j of train_with_reinforce: discounted_returns[i]
RECURSIVE SumRewards(_, _, _, _, _, _)
SumRewards(rewards, i, j, n, discount, acc) ==
  IF j >= n THEN acc
  ELSE SumRewards(rewards, i, j + 1, n, discount,
                  acc + Mul(rewards[j + 1], powf(discount, j - i)))

discounted_return(rewards, i, n, discount) ==
  SumRewards(rewards, i, i, n, discount, 0)

\* adjustment before the sign correction
adjustment_NoDiscount(learning_rate, discount, i, G) ==
  Mul(learning_rate, G)

adjustment(learning_rate, discount, i, G) ==
  Mul(Mul(learning_rate, powf(discount, i)), G)

\* the update of the output node's bias for one timestep
OutputBiasUpdate(adj, p) == Mul(adj, SCALE - p)

\* sum_results of train_with_reinforce for first-layer node j
sum_results(net, a1, j) ==
  Mul(Mul(Mul(net.output_layer_weights[0], a1[0]),
          net.second_layer_weights[j][0]), SCALE - a1[0])
  + Mul(Mul(Mul(net.output_layer_weights[1], a1[1]),
            net.second_layer_weights[j][1]), SCALE - a1[1])
  + Mul(Mul(Mul(net.output_layer_weights[2], a1[2]),
            net.second_layer_weights[j][2]), SCALE - a1[2])
  + Mul(Mul(Mul(net.output_layer_weights[3], a1[3]),
            net.second_layer_weights[j][3]), SCALE - a1[3])
  + Mul(Mul(Mul(net.output_layer_weights[4], a1[4]),
            net.second_layer_weights[j][4]), SCALE - a1[4])

\* the gradient after one timestep has been added to it: d is the update of
\* the output bias, sr[j] is sum_results for first-layer node j
Accumulate_Overwrites(grad, net, network_inputs, a0, a1, d, sr) ==
  [ biases |->
      Array11(LAMBDA b :
         IF b = 10 THEN d
         ELSE IF b >= 5 THEN Mul(Mul(d, a1[b - 5]), SCALE - a1[b - 5])
         ELSE Mul(Mul(Mul(d, a0[b]), SCALE - a0[b]), sr[b])),
    output_layer_weights |-> Array5(LAMBDA k : Mul(d, a1[k])),
    second_layer_weights |->
      Array5(LAMBDA j : Array5(LAMBDA k :
         Mul(Mul(Mul(Mul(d, net.output_layer_weights[k]), a1[k]),
                 SCALE - a1[k]), a0[j]))),
    first_layer_weights |->
      Array5(LAMBDA m : Array5(LAMBDA j :
         Mul(Mul(Mul(Mul(d, network_inputs[m]), a0[j]), SCALE - a0[j]), sr[j]))) ]

Accumulate(grad, net, network_inputs, a0, a1, d, sr) ==
  [ biases |->
      Array11(LAMBDA b :
         grad.biases[b] +
         (IF b = 10 THEN d
          ELSE IF b >= 5 THEN Mul(Mul(d, a1[b - 5]), SCALE - a1[b - 5])
          ELSE Mul(Mul(Mul(d, a0[b]), SCALE - a0[b]), sr[b]))),
    output_layer_weights |->
      Array5(LAMBDA k : grad.output_layer_weights[k] + Mul(d, a1[k])),
    second_layer_weights |->
      Array5(LAMBDA j : Array5(LAMBDA k :
         grad.second_layer_weights[j][k] +
         Mul(Mul(Mul(Mul(d, net.output_layer_weights[k]), a1[k]),
                 SCALE - a1[k]), a0[j]))),
    first_layer_weights |->
      Array5(LAMBDA m : Array5(LAMBDA j :
         grad.first_layer_weights[m][j] +
         Mul(Mul(Mul(Mul(d, network_inputs[m]), a0[j]), SCALE - a0[j]), sr[j]))) ]

AddTimestep(grad, net, network_inputs, act, adj) ==
  Accumulate(grad, net, network_inputs, act.a0, act.a1,
             OutputBiasUpdate(adj, act.pi),
             Array5(LAMBDA j : sum_results(net, act.a1, j)))

\* network + gradient, parameter by parameter
ApplyGradient(net, grad) ==
  [ biases |-> Array11(LAMBDA b : net.biases[b] + grad.biases[b]),
    first_layer_weights |->
      Array5(LAMBDA j : Array5(LAMBDA k :
         net.first_layer_weights[j][k] + grad.first_layer_weights[j][k])),
    second_layer_weights |->
      Array5(LAMBDA j : Array5(LAMBDA k :
         net.second_layer_weights[j][k] + grad.second_layer_weights[j][k])),
    output_layer_weights |->
      Array5(LAMBDA j : net.output_layer_weights[j] + grad.output_layer_weights[j]) ]

\* the locals of the pass after timestep i: G is discounted_returns[i], act0
\* the recomputed forward pass, p and adj are pi and adjustment after the
\* correction for DownKey
Folded(acc, net, network_inputs, G, act0, p, adj) ==
  [ gradient           |-> AddTimestep(acc.gradient, net, network_inputs,
                                       [ act0 EXCEPT !.pi = p ], adj),
    discounted_returns |-> Append(acc.discounted_returns, G),
    adjustments        |-> Append(acc.adjustments, adj),
    pis                |-> Append(acc.pis, p),
    outputs            |-> Append(acc.outputs, act0.pi),
    nonfinite          |-> acc.nonfinite \/ act0.nonfinite,
    panic              |-> FALSE ]

\* "if epochdata.actions[i].0 == NPCInput::DownKey": pi = 1 - pi and
\* adjustment = adjustment * -1.00
Corrected_KeepsSign(acc, net, network_inputs, down, G, act0, adj0) ==
  Folded(acc, net, network_inputs, G, act0,
         IF down THEN SCALE - act0.pi ELSE act0.pi, adj0)

Corrected(acc, net, network_inputs, down, G, act0, adj0) ==
  Folded(acc, net, network_inputs, G, act0,
         IF down THEN SCALE - act0.pi ELSE act0.pi,
         IF down THEN Mul(adj0, -SCALE) ELSE adj0)

\* one iteration of the loop over the timesteps i of train_with_reinforce.
\* acc carries the gradient resource and the locals of the pass.  An index
\* past the end of rewards (line 71) or of actions (line 121) panics.
Timestep(net, ed, hy, i, G, acc) ==
  Corrected(acc, net, ed.states[i + 1], ed.actions[i + 1][1] = "DownKey", G,
            activations(net, ed.states[i + 1]),
            adjustment(hy.learning_rate, hy.discount, i, G))

\* the locals of a pass before its first timestep, on the gradient resource
PassStart(grad) ==
  [ gradient |-> grad, discounted_returns |-> << >>, adjustments |-> << >>,
    pis |-> << >>, outputs |-> << >>, nonfinite |-> FALSE, panic |-> FALSE ]

\* the loop: for i in 0..epochdata.states.len(), left at a panic
RECURSIVE Timesteps(_, _, _, _, _)
Timesteps(net, ed, hy, i, acc) ==
  IF acc.panic \/ i >= Len(ed.states) THEN acc
  ELSE IF Len(ed.rewards) < Len(ed.states) \/ i >= Len(ed.actions)
    THEN [ acc EXCEPT !.panic = TRUE ]
  ELSE Timesteps(net, ed, hy, i + 1,
         Timestep(net, ed, hy, i,
                  discounted_return(ed.rewards, i, Len(ed.states), hy.discount),
                  acc))

\* -------------------------------------------------------------------- state
VARIABLES
  network,     \* Res<Network>: the policy model
  gradient,    \* Res<PolicyGradient>: the gradient accumulator
  epochdata,   \* Res<EpochData>: actions, states, rewards, inprogress, epoch
  score,       \* Res<Score>
  action,      \* Res<NPCInput>: the key the paddle system reads
  hyper,       \* the constants DISCOUNTING_FACTOR and LEARNING_RATE
  ran,         \* the systems that have run in the current frame
  frame,       \* frames completed
  limit,       \* frames to explore
  panicked,    \* a system panicked: the app is gone
  flight,      \* runs of move_ball since the ball was at the centre
  sampled,     \* output and draw of the latest feed_forward
  last_pass    \* what the latest training pass read and computed

vars ==
  << network, gradient, epochdata, score, action, hyper, ran, frame, limit,
     panicked, flight, sampled, last_pass >>

\* pong.rs: "if TRAINING"
TRAINING == TRUE
\* the constants of the trainer
DISCOUNTING_FACTOR == 9900
LEARNING_RATE == 1500
\* update_score_text: a side has won when its score is > 10
WinScore == 10

\* systems that read or write EpochData, Score or Network run in any order
CoreSystems ==
  { "move_ball", "update_score_text", "feed_forward", "train_with_reinforce" }
\* systems that touch only transforms and the keyboard; they commute with
\* every core system, so they are taken first in a frame, in this order
EnvSystems == << "move_paddles", "handle_collisions", "output_network_state" >>
EnvSet == { EnvSystems[i] : i \in 1 .. 3 }

\* system s may run now: the app is alive, the frame budget is not used up and
\* s has not run in this frame
CanRun(s) ==
  /\ ~panicked
  /\ frame < limit
  /\ s \notin ran
  /\ IF s \in CoreSystems THEN EnvSet \subseteq ran
     ELSE \E i \in 1 .. 3 :
            /\ EnvSystems[i] = s
            /\ \A h \in 1 .. 3 : (EnvSystems[h] \in ran) = (h < i)

\* the frame ends when every system has run
FrameDone(s) == ran \cup {s} = CoreSystems \cup EnvSet

Ran(s) ==
  /\ ran' = IF FrameDone(s) THEN {} ELSE ran \cup {s}
  /\ frame' = IF FrameDone(s) THEN frame + 1 ELSE frame

\* -------------------------------------------------------------- the inputs
\* initialize_network draws every parameter from -0.05 .. 0.05
ZeroNetwork == ZeroParams

MixedNetwork ==
  [ biases               |-> Array11(LAMBDA b : IF b % 2 = 0 THEN 300 ELSE -200),
    first_layer_weights  |-> Array5(LAMBDA i : Array5(LAMBDA k :
                                IF (i + k) % 2 = 0 THEN 400 ELSE -300)),
    second_layer_weights |-> Array5(LAMBDA i : Array5(LAMBDA k :
                                IF (i + 2 * k) % 3 = 0 THEN -450 ELSE 250)),
    output_layer_weights |-> Array5(LAMBDA k : IF k % 2 = 0 THEN 499 ELSE -350) ]

InitialNetworks == { ZeroNetwork, MixedNetwork }

\* a draw of initialize_network whose weighted sums cancel at every node of
\* the second layer and at the output node: the output is exactly 0.5
BalancedNetwork ==
  [ ZeroParams EXCEPT
      !.second_layer_weights =
         Array5(LAMBDA j : Array5(LAMBDA k :
           IF j = 4 THEN 0 ELSE IF (j + k) % 2 = 0 THEN 400 ELSE -400)),
      !.output_layer_weights =
         Array5(LAMBDA k : IF k = 4 THEN 0 ELSE IF k % 2 = 0 THEN 400 ELSE -400) ]

\* a network after training: first-layer weights of the ball's x at 0.2
TrainedNetwork ==
  [ MixedNetwork EXCEPT
      !.first_layer_weights[0] = Array5(LAMBDA k : IF k % 2 = 0 THEN 2000 ELSE -2000) ]

\* [ball x, ball y, ball x velocity, ball y velocity, NPC paddle y]
\* the ball one step after a reset to the centre, BALL_SPEED = 4.0
CentreState == << 4 * SCALE, 4 * SCALE, 4 * SCALE, 4 * SCALE, 0 >>
\* the ball at the right wall
WallState == << 530 * SCALE, 120 * SCALE, 4 * SCALE, 4 * SCALE, -26666 >>

AsArray(t) == Array5(LAMBDA i : t[i + 1])

\* what feed_forward reads in one run: the queried state and the uniform draw
Draws == { [state |-> AsArray(CentreState), random_value |-> SCALE \div 4] }

ScenarioDraws ==
  Draws \cup
  { [state |-> AsArray(WallState), random_value |-> 3 * (SCALE \div 4)] }

NumDown(actions) == Cardinality({i \in 1 .. Len(actions) : actions[i][1] = "DownKey"})

NoPass ==
  [ id |-> 0, outcome |-> "none", states |-> << >>, actions |-> << >>,
    rewards |-> << >>, before |-> ZeroParams, gradient |-> ZeroParams,
    discounted_returns |-> << >>, adjustments |-> << >>, pis |-> << >>,
    outputs |-> << >>, nonfinite |-> FALSE ]

\* --------------------------------------------------------------------- Init
\* the resources as the app inserts them: an empty trajectory, an epoch in
\* progress, the network of initialize_network, a zero gradient
Construct(net, hy, pts, lim, fl) ==
  /\ network = net
  /\ gradient = ZeroParams
  /\ epochdata = [ actions |-> << >>, states |-> << >>, rewards |-> << >>,
                   inprogress |-> TRUE, epoch |-> 0 ]
  /\ score = [ pc |-> pts.pc, npc |-> pts.npc, pc_wins |-> 0, npc_wins |-> 0,
               epoch |-> 0 ]
  /\ action = "UpKey"
  /\ hyper = hy
  /\ ran = {}
  /\ frame = 0
  /\ limit = lim
  /\ panicked = FALSE
  /\ flight = fl
  /\ sampled = [ output |-> 0, random_value |-> 0, runs |-> 0 ]
  /\ last_pass = NoPass

DefaultHyper ==
  [ discount |-> DISCOUNTING_FACTOR, learning_rate |-> LEARNING_RATE ]

\* the app from its construction: Score::default() is 0 - 0
Init ==
  \E net \in InitialNetworks :
    Construct(net, DefaultHyper, [ pc |-> 0, npc |-> 0 ], MaxFrames, 0)

\* the systems on test resources: a game one point from its end, the ball
\* near a wall, with the hyperparameters of the scenarios
Fixtures ==
  { [ network |-> ZeroNetwork,
      hyper   |-> [ discount |-> SCALE, learning_rate |-> SCALE \div 10 ],
      score   |-> [ pc |-> 0, npc |-> WinScore ] ],
    [ network |-> BalancedNetwork,
      hyper   |-> [ discount |-> SCALE, learning_rate |-> SCALE \div 10 ],
      score   |-> [ pc |-> 0, npc |-> WinScore ] ],
    [ network |-> MixedNetwork,
      hyper   |-> [ discount |-> 9 * (SCALE \div 10), learning_rate |-> LEARNING_RATE ],
      score   |-> [ pc |-> 0, npc |-> WinScore ] ],
    [ network |-> TrainedNetwork,
      hyper   |-> DefaultHyper,
      score   |-> [ pc |-> WinScore, npc |-> 0 ] ] }

ScenarioInit ==
  \E f \in Fixtures :
    Construct(f.network, f.hyper, f.score, MaxSteps, MinFlight)

\* ------------------------------------------------------------------ systems
\* feed_forward, the sampling: the action and the probability it records
Recorded_RawProbability(random_value, out) ==
  IF random_value < out THEN << "UpKey", out >> ELSE << "DownKey", out >>

Recorded(random_value, out) ==
  IF random_value < out THEN << "UpKey", out >> ELSE << "DownKey", SCALE - out >>

\* network.rs feed_forward, after the forward pass gave out for draw d
Sample(d, out) ==
  /\ (d.random_value < out) \/ NumDown(epochdata.actions) < MaxDown
  /\ action' = Recorded(d.random_value, out)[1]
  /\ epochdata' =
       [ epochdata EXCEPT
           !.states  = Append(@, d.state),
           !.actions = Append(@, Recorded(d.random_value, out)) ]
  /\ sampled' = [ output |-> out, random_value |-> d.random_value, runs |-> 1 ]

\* network.rs feed_forward
FeedForward ==
  /\ CanRun("feed_forward")
  /\ \E d \in (IF limit = MaxFrames THEN Draws ELSE ScenarioDraws) :
       Sample(d, network_output_value(network, d.state))
  /\ Ran("feed_forward")
  /\ UNCHANGED << network, gradient, score, hyper, limit, panicked, flight,
                  last_pass >>

\* where the ball can be after fl runs of move_ball from the centre: past the
\* left wall, past the right wall or in the field
Reachable_Anywhere(fl) == { "left", "right", "field" }

Reachable(fl) ==
  IF fl >= MinFlight THEN { "left", "right", "field" } ELSE { "field" }

\* pong.rs move_ball: a ball past a wall scores for the other side and is put
\* back to the centre; then the ball moves by its velocity
MoveBall ==
  /\ CanRun("move_ball")
  /\ \E where \in Reachable(flight) :
       /\ score' = [ score EXCEPT
                       !.npc = IF where = "left" THEN @ + 1 ELSE @,
                       !.pc  = IF where = "right" THEN @ + 1 ELSE @ ]
       /\ flight' = IF where # "field" THEN 1
                    ELSE IF flight < MinFlight THEN flight + 1 ELSE flight
  /\ Ran("move_ball")
  /\ UNCHANGED << network, gradient, epochdata, action, hyper, limit, panicked,
                  sampled, last_pass >>

\* pong.rs update_score_text (one Text entity)
UpdateScoreText ==
  /\ CanRun("update_score_text")
  /\ IF score.npc > WinScore
       THEN /\ score' = [ score EXCEPT !.pc = 0, !.npc = 0, !.npc_wins = @ + 1 ]
            /\ epochdata' =
                 IF TRAINING
                   THEN [ epochdata EXCEPT !.epoch = @ + 1, !.inprogress = FALSE,
                                           !.rewards = Append(@, SCALE) ]
                   ELSE [ epochdata EXCEPT !.epoch = @ + 1 ]
       ELSE IF score.pc > WinScore
       THEN /\ score' = [ score EXCEPT !.pc = 0, !.npc = 0, !.pc_wins = @ + 1 ]
            /\ epochdata' =
                 IF TRAINING
                   THEN [ epochdata EXCEPT !.epoch = @ + 1, !.inprogress = FALSE,
                                           !.rewards = Append(@, -SCALE) ]
                   ELSE [ epochdata EXCEPT !.epoch = @ + 1 ]
       ELSE /\ score' = score
            /\ epochdata' =
                 IF TRAINING THEN [ epochdata EXCEPT !.rewards = Append(@, 0) ]
                 ELSE epochdata
  /\ Ran("update_score_text")
  /\ UNCHANGED << network, gradient, action, hyper, limit, panicked, flight,
                  sampled, last_pass >>

\* train_with_reinforce, "Reset the epoch": inprogress = true and the three
\* buffers cleared
Reset_KeepsRewards(ed) ==
  [ ed EXCEPT !.inprogress = TRUE, !.actions = << >>, !.states = << >> ]

Reset(ed) ==
  [ ed EXCEPT !.inprogress = TRUE, !.actions = << >>, !.rewards = << >>,
              !.states = << >> ]

\* reinforce.rs train_with_reinforce, after the loop over the timesteps
\* left r: the gradient is applied and the resources are reset, unless the
\* loop panicked
TrainingPass(r) ==
  /\ last_pass' = [ id |-> last_pass.id + 1,
                    states |-> epochdata.states,
                    actions |-> epochdata.actions,
                    rewards |-> epochdata.rewards,
                    before |-> network,
                    gradient |-> r.gradient,
                    discounted_returns |-> r.discounted_returns,
                    adjustments |-> r.adjustments,
                    pis |-> r.pis,
                    outputs |-> r.outputs,
                    nonfinite |-> r.nonfinite,
                    outcome |-> IF r.panic THEN "panic" ELSE "applied" ]
  /\ IF r.panic
       THEN /\ panicked' = TRUE
            /\ gradient' = r.gradient
            /\ UNCHANGED << network, epochdata >>
       ELSE /\ panicked' = FALSE
            /\ network' = ApplyGradient(network, r.gradient)
            /\ gradient' = ZeroParams
            /\ epochdata' = Reset(epochdata)

\* reinforce.rs train_with_reinforce
TrainWithReinforce_AlwaysTrains ==
  /\ CanRun("train_with_reinforce")
  /\ TrainingPass(Timesteps(network, epochdata, hyper, 0, PassStart(gradient)))
  /\ Ran("train_with_reinforce")
  /\ UNCHANGED << score, action, hyper, limit, flight, sampled >>

TrainWithReinforce ==
  /\ CanRun("train_with_reinforce")
  /\ IF (epochdata.inprogress = FALSE) /\ TRAINING
       THEN TrainingPass(
              Timesteps(network, epochdata, hyper, 0, PassStart(gradient)))
       ELSE UNCHANGED << network, gradient, epochdata, panicked, last_pass >>
  /\ Ran("train_with_reinforce")
  /\ UNCHANGED << score, action, hyper, limit, flight, sampled >>

\* pong.rs move_paddles: moves the paddles' transforms by the keys and by action
MovePaddles ==
  /\ CanRun("move_paddles")
  /\ Ran("move_paddles")
  /\ UNCHANGED << network, gradient, epochdata, score, action, hyper, limit,
                  panicked, flight, sampled, last_pass >>

\* pong.rs handle_collisions: turns the ball's velocity at a paddle
HandleCollisions ==
  /\ CanRun("handle_collisions")
  /\ Ran("handle_collisions")
  /\ UNCHANGED << network, gradient, epochdata, score, action, hyper, limit,
                  panicked, flight, sampled, last_pass >>

\* network.rs output_network_state: prints the network when X is pressed
OutputNetworkState_Resets ==
  /\ CanRun("output_network_state")
  /\ Ran("output_network_state")
  /\ network' = ZeroParams
  /\ UNCHANGED << gradient, epochdata, score, action, hyper, limit, panicked,
                  flight, sampled, last_pass >>

OutputNetworkState ==
  /\ CanRun("output_network_state")
  /\ Ran("output_network_state")
  /\ UNCHANGED << network, gradient, epochdata, score, action, hyper, limit,
                  panicked, flight, sampled, last_pass >>

Next ==
  \/ MovePaddles
  \/ HandleCollisions
  \/ OutputNetworkState
  \/ MoveBall
  \/ UpdateScoreText
  \/ FeedForward
  \/ TrainWithReinforce

Spec == Init /\ [][Next]_vars

ScenarioSpec == ScenarioInit /\ [][Next]_vars


\* ------------------------------------------------------------------- claims
Last(seq) == seq[Len(seq)]

\* system s runs in this step
Step(s) == s \notin ran /\ ran' = (IF FrameDone(s) THEN {} ELSE ran \cup {s})

\* this step executes a training pass
PassStep == Step("train_with_reinforce") /\ epochdata.inprogress = FALSE /\ TRAINING

\* C1: whenever a training pass executes, the states, actions and rewards it
\* reads have the same length T and T > 0, in every order of the systems.
C1_SameLengthAtPass ==
  last_pass.id > 0 =>
    /\ Len(last_pass.states) = Len(last_pass.actions)
    /\ Len(last_pass.states) = Len(last_pass.rewards)
    /\ Len(last_pass.states) > 0

\* C2: a training pass over sequences of unequal lengths is rejected and
\* leaves every parameter of the network as it was before the pass.
C2_MismatchRejected ==
  ( /\ last_pass.id > 0
    /\ \/ Len(last_pass.states) # Len(last_pass.actions)
       \/ Len(last_pass.states) # Len(last_pass.rewards) )
  => /\ last_pass.outcome # "applied"
     /\ network = last_pass.before

\* C3: right after every training pass that completes, the gradient is zero
\* in every field, the three buffers are empty and inprogress is true.
C3_ResetAfterPass ==
  [][ (PassStep /\ ~panicked') =>
        /\ gradient' = ZeroParams
        /\ epochdata'.states = << >>
        /\ epochdata'.actions = << >>
        /\ epochdata'.rewards = << >>
        /\ epochdata'.inprogress = TRUE ]_vars

\* a pass that accumulated a gradient over a trajectory has just completed
C3_Witness ==
  /\ last_pass.outcome = "applied"
  /\ last_pass.gradient # ZeroParams
  /\ Len(last_pass.rewards) > 0
  /\ gradient = ZeroParams
  /\ epochdata.states = << >> /\ epochdata.rewards = << >>
  /\ epochdata.inprogress = TRUE
  /\ "train_with_reinforce" \in ran

\* the reverse recurrence G_{T-1} = reward_{T-1}, G_t = reward_t + discount *
\* G_{t+1} over the rewards of an episode, t counted from 0
RECURSIVE RecurrenceReturn(_, _, _)
RecurrenceReturn(rewards, t, discount) ==
  IF t >= Len(rewards) - 1 THEN rewards[t + 1]
  ELSE rewards[t + 1] + Mul(discount, RecurrenceReturn(rewards, t + 1, discount))

\* C4: for every t in [0, T) the discounted return of a training pass is the
\* sum of reward_k * discount^(k-t) for k = t .. T-1, equal to the reverse
\* recurrence; the last reward of the episode contributes to every G_t.
C4_DiscountedReturn ==
  (last_pass.id > 0 /\ last_pass.outcome = "applied") =>
    /\ Len(last_pass.discounted_returns) = Len(last_pass.rewards)
    /\ \A t \in 0 .. Len(last_pass.discounted_returns) - 1 :
         /\ last_pass.discounted_returns[t + 1] =
              RecurrenceReturn(last_pass.rewards, t, hyper.discount)
         /\ Last(last_pass.rewards) # 0 => last_pass.discounted_returns[t + 1] # 0

\* the entry of the trajectory and the draw of the latest feed_forward agree:
\* r < output records Up with output, otherwise Down with 1 - output, and the
\* NPCInput resource holds the recorded action
LatestSample(entry, out) ==
  /\ sampled.output = out
  /\ sampled.random_value < out => entry = << "UpKey", out >>
  /\ ~(sampled.random_value < out) => entry = << "DownKey", SCALE - out >>
  /\ action = entry[1]

C5_LatestSample ==
  Len(epochdata.actions) > 0 =>
    LatestSample(Last(epochdata.actions),
                 network_output_value(network, Last(epochdata.states)))

\* the recorded probability tells the action
ProbabilityIffAction(entry, out) ==
  /\ (entry[2] = out) <=> (entry[1] = "UpKey")
  /\ (entry[2] = SCALE - out) <=> (entry[1] = "DownKey")

\* the action tells the recorded probability, and the probability tells the
\* action unless output = 1 - output
ProbabilityOfAction(entry, out) ==
  /\ entry[1] = "UpKey" => entry[2] = out
  /\ entry[1] = "DownKey" => entry[2] = SCALE - out
  /\ entry[1] \in { "UpKey", "DownKey" }
  /\ out # SCALE - out => ProbabilityIffAction(entry, out)

\* C5 as stated: for every entry of epochdata.actions the recorded
\* probability equals the raw output iff the action is Up and 1 - output iff
\* the action is Down, and NPCInput holds the recorded action.
C5_ProbabilityIffAction ==
  /\ C5_LatestSample
  /\ \A i \in 1 .. Len(epochdata.actions) :
       ProbabilityIffAction(epochdata.actions[i],
                            network_output_value(network, epochdata.states[i]))

\* C5 as amended: r < output records Up with probability output, otherwise
\* Down with 1 - output, and NPCInput holds the recorded action; the recorded
\* probability equals the output iff Up and 1 - output iff Down whenever
\* output # 0.5 (at 0.5 both actions record 0.5).
C5_ProbabilityOfAction ==
  /\ C5_LatestSample
  /\ \A i \in 1 .. Len(epochdata.actions) :
       ProbabilityOfAction(epochdata.actions[i],
                           network_output_value(network, epochdata.states[i]))

\* a trajectory holds an Up and a Down entry, the latest one a Down, sampled
\* from an output other than 0.5
C5_Witness ==
  /\ Len(epochdata.actions) > 1
  /\ sampled.output # SCALE - sampled.output
  /\ Last(epochdata.actions)[1] = "DownKey"
  /\ epochdata.actions[1][1] = "UpKey"
  /\ ~(sampled.random_value < sampled.output)
  /\ action = "DownKey"

\* C6: the network changes only in a step of train_with_reinforce that
\* executes a training pass (inprogress = false); every other system leaves
\* it unchanged.
C6_OnlyTrainerWrites == [][ network' # network => PassStep ]_vars

\* a pass has changed the network and feed_forward has run on it since
C6_Witness ==
  /\ last_pass.outcome = "applied"
  /\ network # last_pass.before
  /\ Len(epochdata.states) > 0
  /\ "output_network_state" \in ran

\* C7: each episode end is followed by exactly one training pass, which runs
\* before the next episode can end and sets inprogress back to true; no
\* finished episode is left untrained.  epochdata.epoch counts the episode
\* ends, last_pass.id the passes.
C7_OnePassPerEpisode ==
  /\ last_pass.id <= epochdata.epoch
  /\ epochdata.epoch <= last_pass.id + 1
  /\ epochdata.inprogress = TRUE <=> epochdata.epoch = last_pass.id
  /\ ~(panicked /\ epochdata.inprogress = FALSE)

\* C8: every reward is 0 except the one of the step that ends the episode,
\* which is +1 or -1 and comes with the episode flag; every trajectory handed
\* to training has exactly one non-zero reward, its last element.
C8_OneTerminalReward ==
  /\ \A i \in 1 .. Len(epochdata.rewards) :
       epochdata.rewards[i] \in { 0, SCALE, -SCALE }
  /\ epochdata.inprogress = FALSE =>
       \E i \in 1 .. Len(epochdata.rewards) : epochdata.rewards[i] # 0
  /\ last_pass.id > 0 =>
       /\ Len(last_pass.rewards) > 0
       /\ Last(last_pass.rewards) \in { SCALE, -SCALE }
       /\ \A i \in 1 .. Len(last_pass.rewards) - 1 : last_pass.rewards[i] = 0

RECURSIVE OutputBiasSum(_, _, _)
OutputBiasSum(adjustments, pis, t) ==
  IF t > Len(adjustments) THEN 0
  ELSE Mul(adjustments[t], SCALE - pis[t]) + OutputBiasSum(adjustments, pis, t + 1)

\* sign * learningRate * discount^t * G
SignedAdjustment(key, hy, t, G) ==
  IF key = "DownKey" THEN - Mul(Mul(hy.learning_rate, powf(hy.discount, t)), G)
  ELSE Mul(Mul(hy.learning_rate, powf(hy.discount, t)), G)

\* the scenario: one timestep, raw output 0.5, reward +1, discount 1.0,
\* learning rate 0.1, action Up
SingleUpScenario ==
  /\ last_pass.outcome = "applied"
  /\ Len(last_pass.states) = 1
  /\ last_pass.outputs = << SCALE \div 2 >>
  /\ last_pass.rewards = << SCALE >>
  /\ last_pass.actions[1][1] = "UpKey"
  /\ hyper = [ discount |-> SCALE, learning_rate |-> SCALE \div 10 ]

\* C10: in every training pass adjustment_t = sign_t * learningRate *
\* discount^t * G_t and pi_t = output for Up, 1 - output for Down, and the
\* output bias grows by the sum of adjustment_t * (1 - pi_t); in the scenario
\* adjustment_0 = 0.1 and the output bias grows by exactly 0.05.
C10_Adjustment ==
  /\ (last_pass.id > 0 /\ last_pass.outcome = "applied") =>
       /\ \A t \in 1 .. Len(last_pass.adjustments) :
            /\ last_pass.adjustments[t] =
                 SignedAdjustment(last_pass.actions[t][1], hyper, t - 1,
                                  last_pass.discounted_returns[t])
            /\ last_pass.outputs[t] =
                 network_output_value(last_pass.before, last_pass.states[t])
            /\ last_pass.pis[t] =
                 IF last_pass.actions[t][1] = "UpKey" THEN last_pass.outputs[t]
                 ELSE SCALE - last_pass.outputs[t]
       /\ network.biases[10] - last_pass.before.biases[10] =
            OutputBiasSum(last_pass.adjustments, last_pass.pis, 1)
  /\ SingleUpScenario =>
       /\ last_pass.adjustments = << SCALE \div 10 >>
       /\ network.biases[10] - last_pass.before.biases[10] = SCALE \div 20

\* the scenario has been trained on
C10_Witness ==
  /\ SingleUpScenario
  /\ network.biases[10] # last_pass.before.biases[10]

\* every parameter of p negated
Negated(p) ==
  [ biases |-> Array11(LAMBDA b : - p.biases[b]),
    first_layer_weights |->
      Array5(LAMBDA j : Array5(LAMBDA k : - p.first_layer_weights[j][k])),
    second_layer_weights |->
      Array5(LAMBDA j : Array5(LAMBDA k : - p.second_layer_weights[j][k])),
    output_layer_weights |-> Array5(LAMBDA k : - p.output_layer_weights[k]) ]

\* the parameter deltas of the latest pass: network after minus network before
PassDeltas == ApplyGradient(network, Negated(last_pass.before))

Opposite(key) == IF key = "DownKey" THEN "UpKey" ELSE "DownKey"

\* the deltas a pass from the same parameters produces on the episode of the
\* latest pass with the other action recorded in its one timestep: the state,
\* the rewards and so G, the discount power and the raw output are the same
OppositeDeltas ==
  Timesteps(last_pass.before,
            [ states  |-> last_pass.states,
              actions |-> << << Opposite(last_pass.actions[1][1]),
                                SCALE - last_pass.actions[1][2] >> >>,
              rewards |-> last_pass.rewards ],
            hyper, 0, PassStart(ZeroParams)).gradient

\* the latest pass completed on an episode of one timestep
SingleTimestepPass ==
  /\ last_pass.outcome = "applied"
  /\ Len(last_pass.states) = 1
  /\ Len(last_pass.actions) = 1

SigmoidNode(z, a) ==
  /\ z = 0 => a = SCALE \div 2
  /\ z > 0 => a >= SCALE \div 2
  /\ z < 0 => a <= SCALE \div 2
  /\ a >= 0 /\ a <= SCALE

\* the nodes of a layer are ordered as their pre-activations are
IncreasingLayer(z, a) ==
  \A k \in Idx :
    /\ SigmoidNode(z[k], a[k])
    /\ \A m \in Idx : z[k] < z[m] => a[k] <= a[m]

\* the three layers of a forward pass of net on a state
SigmoidForward(net, network_inputs) ==
  /\ IncreasingLayer(PreActivations0(net, network_inputs),
                     first_layer_outputs(net, network_inputs))
  /\ IncreasingLayer(
       PreActivations1(net, first_layer_outputs(net, network_inputs)),
       second_layer_outputs(net, network_inputs))
  /\ SigmoidNode(
       PreActivationOut(net, second_layer_outputs(net, network_inputs)),
       network_output_value(net, network_inputs))

\* C12: the activation of every node of the two hidden layers and of the
\* output, in the play-time forward pass and in the recomputation of the
\* training pass, is sigmoid(x) = 1/(1+e^(-x)): increasing in the
\* pre-activation x, 0.5 at x = 0 and within (0,1).  Checked for the latest
\* state feed_forward queried, with the output it sampled from, and for the
\* first state of the latest pass, with the output the pass recomputed.
C12_IncreasingSigmoid ==
  /\ Len(epochdata.states) > 0 =>
       /\ SigmoidForward(network, Last(epochdata.states))
       /\ sampled.runs > 0 =>
            SigmoidNode(
              PreActivationOut(network,
                second_layer_outputs(network, Last(epochdata.states))),
              sampled.output)
  /\ Len(last_pass.outputs) > 0 =>
       /\ SigmoidForward(last_pass.before, last_pass.states[1])
       /\ SigmoidNode(
            PreActivationOut(last_pass.before,
              second_layer_outputs(last_pass.before, last_pass.states[1])),
            last_pass.outputs[1])

\* C13: from the step in which update_score_text sets inprogress to false
\* until the training pass has cleared the buffers, no step appends a state,
\* an action or a reward: nothing of the next episode enters the trajectory
\* before the previous one has been drained.
C13_NoAppendWhileDraining ==
  [][ epochdata.inprogress = FALSE =>
        /\ Len(epochdata'.states) <= Len(epochdata.states)
        /\ Len(epochdata'.actions) <= Len(epochdata.actions)
        /\ Len(epochdata'.rewards) <= Len(epochdata.rewards) ]_vars

\* C14: in every frame feed_forward appends the state and the action of the
\* step before update_score_text appends its reward, and a training pass
\* reads a trajectory in which every step has both, so that rewards[t]
\* belongs to the step of states[t] and actions[t].
C14_EntryBeforeReward ==
  [][ /\ Step("update_score_text") => "feed_forward" \in ran
      /\ Step("update_score_text") =>
           Len(epochdata'.rewards) = Len(epochdata'.states)
      /\ PassStep => Len(epochdata.rewards) = Len(epochdata.states) ]_vars

\* the contribution of timestep t of the latest pass to every parameter: what
\* the timestep adds to a gradient of zeros
Contribution(t) ==
  AddTimestep(ZeroParams, last_pass.before, last_pass.states[t],
              [ activations(last_pass.before, last_pass.states[t])
                  EXCEPT !.pi = last_pass.pis[t] ],
              last_pass.adjustments[t])

\* the sum of the contributions of the timesteps t .. T
RECURSIVE SumContributions(_)
SumContributions(t) ==
  IF t > Len(last_pass.adjustments) THEN ZeroParams
  ELSE ApplyGradient(Contribution(t), SumContributions(t + 1))

\* C15: a training pass over T timesteps changes every parameter by exactly
\* the sum over t in [0, T) of the parameter's per-timestep contribution: the
\* gradient is all-zero when the pass starts, the contributions are added to
\* it, and the sum is added once to the network, not divided by T or scaled.
C15_SumOfContributions ==
  /\ ~panicked => gradient = ZeroParams
  /\ last_pass.outcome = "applied" =>
       /\ last_pass.gradient = SumContributions(1)
       /\ network = ApplyGradient(last_pass.before, last_pass.gradient)
       /\ PassDeltas = SumContributions(1)

\* a pass over two timesteps has been applied, both with a contribution to
\* the output bias and to the weights
C15_Witness ==
  /\ last_pass.outcome = "applied"
  /\ Len(last_pass.adjustments) = 2
  /\ Contribution(1).biases[10] # 0
  /\ Contribution(2).biases[10] # 0
  /\ Contribution(1).output_layer_weights[0] # 0
  /\ Contribution(2).second_layer_weights[0][0] # 0
  /\ PassDeltas # Contribution(2)
  /\ gradient = ZeroParams

\* C16: for every timestep t of a trajectory that is trained on, the
\* probability pi_t the pass recomputes from states[t] and the action of
\* actions[t] equals the probability feed_forward recorded in actions[t]: the
\* network the pass reads is the one every entry was sampled from.
C16_RecomputedIsRecorded ==
  /\ last_pass.outcome = "applied" =>
       \A t \in 1 .. Len(last_pass.pis) :
         last_pass.pis[t] = last_pass.actions[t][2]
  /\ \A i \in 1 .. Len(epochdata.actions) :
       epochdata.actions[i][2] =
         IF epochdata.actions[i][1] = "DownKey"
           THEN SCALE - network_output_value(network, epochdata.states[i])
           ELSE network_output_value(network, epochdata.states[i])

\* a pass has recomputed the probabilities of an Up and of a Down entry that
\* were sampled from outputs other than 0.5
C16_Witness ==
  /\ last_pass.outcome = "applied"
  /\ Len(last_pass.pis) = 2
  /\ last_pass.actions[1][1] = "UpKey"
  /\ last_pass.actions[2][1] = "DownKey"
  /\ last_pass.outputs[1] # SCALE \div 2
  /\ last_pass.pis[2] = SCALE - last_pass.outputs[2]
  /\ last_pass.pis[2] # last_pass.outputs[2]
  /\ network # last_pass.before

\* a side has reached 11
Won(pts) == pts.npc = WinScore + 1 \/ pts.pc = WinScore + 1

\* this step ends an episode: the terminal reward is appended, inprogress is
\* set to false, the epoch counter and the win counter of the winner grow by one
EndsEpisode ==
  /\ epochdata'.inprogress = FALSE
  /\ epochdata'.epoch = epochdata.epoch + 1
  /\ Len(epochdata'.rewards) = Len(epochdata.rewards) + 1
  /\ Last(epochdata'.rewards) \in { SCALE, -SCALE }
  /\ score'.npc_wins + score'.pc_wins = score.npc_wins + score.pc_wins + 1
  /\ Last(epochdata'.rewards) = SCALE =>
       score.npc = WinScore + 1 /\ score'.npc_wins = score.npc_wins + 1
  /\ Last(epochdata'.rewards) = -SCALE =>
       score.pc = WinScore + 1 /\ score'.pc_wins = score.pc_wins + 1

\* this step leaves the episode flag, the epoch counter and the win counters
\* alone or, in a training pass, sets the flag back to true
NoEpisodeEnd ==
  /\ epochdata'.epoch = epochdata.epoch
  /\ score'.npc_wins = score.npc_wins /\ score'.pc_wins = score.pc_wins
  /\ epochdata'.inprogress = epochdata.inprogress \/ PassStep
  /\ Len(epochdata'.rewards) > Len(epochdata.rewards) =>
       Last(epochdata'.rewards) = 0

C18_PassInRange ==
  /\ ~panicked
  /\ last_pass.id > 0 =>
       /\ Len(last_pass.rewards) >= Len(last_pass.states)
       /\ Len(last_pass.actions) >= Len(last_pass.states)
       /\ last_pass.outcome # "panic"

====
